---------------------------- MODULE Spec2Model ----------------------------
(***************************************************************************)
(* The backtesting exchange of basana (src/basana/backtesting/exchange.py) *)
(* as a state machine: the order index, the balance ledger, the last-bar   *)
(* cache, the per-pair subscriber sources and the dispatcher that drives   *)
(* them.                                                                   *)
(*                                                                         *)
(* Decimals.  Every Decimal of the program is an integer numerator over    *)
(* Den (a quarter of a unit).  Both precisions of the pair info are 0, so  *)
(* a rounded amount is a multiple of Den.  A dictionary symbol -> Decimal  *)
(* is a function on Symbols in which 0 stands for "no entry"; the program  *)
(* drops zero entries (remove_empty_amounts) wherever it tests for one.    *)
(***************************************************************************)
EXTENDS Integers, Sequences, FiniteSets, TLC

\* ------------------------------------------------------------------ bounds
MaxOrders == 2
MaxBars == 2
MaxCalls == 2

\* ------------------------------------------------------- program constants
reindex_every == 50

\* --------------------------------------------------------------- decimals
Den == 2 * 2
U(n) == n * Den
Abs(x) == IF x < 0 THEN -x ELSE x
Sign(x) == IF x < 0 THEN -1 ELSE IF x > 0 THEN 1 ELSE 0
Min(a, b) == IF a <= b THEN a ELSE b
Max(a, b) == IF a >= b THEN a ELSE b
\* Decimal product of two numerators (exact for the inputs of the model,
\* whose amounts and prices are multiples of a half).
Mul(a, b) == (a * b) \div Den

\* core_helpers.truncate_decimal at precision 0: toward zero.
truncate_decimal(x) == Sign(x) * ((Abs(x) \div Den) * Den)
\* core_helpers.round_decimal at precision 0, ROUND_HALF_EVEN.
round_decimal(x) ==
    LET q == Abs(x) \div Den
        r == Abs(x) % Den
        up == (2 * r > Den) \/ (2 * r = Den /\ q % 2 = 1)
    IN  Sign(x) * ((IF up THEN q + 1 ELSE q) * Den)
\* core_helpers.round_decimal at precision 0, ROUND_UP: away from zero.
round_decimal_up(x) ==
    LET q == Abs(x) \div Den
        r == Abs(x) % Den
    IN  Sign(x) * ((IF r > 0 THEN q + 1 ELSE q) * Den)

\* ------------------------------------------------------- symbols and pairs
Symbols == {"BTC", "ETH", "USDT"}
P1 == [base_symbol |-> "BTC", quote_symbol |-> "USDT"]
P2 == [base_symbol |-> "ETH", quote_symbol |-> "USDT"]
Pairs == {P1, P2}
NoAmounts == [s \in Symbols |-> 0]
add_amounts(a, b) == [s \in Symbols |-> a[s] + b[s]]
get_base_sign_for_operation(operation) == IF operation = "BUY" THEN 1 ELSE -1


\* ------------------------------------------------------------------ state
VARIABLES
    available,            \* AccountBalances: symbol -> spendable amount
    holds,                \* AccountBalances: order id -> symbol -> amount on hold
    orders,               \* OrderIndex._orders: order id (creation index) -> order
    open_orders,          \* OrderIndex._open_orders: list of order ids
    reindex_counter,      \* OrderIndex._reindex_counter
    liquidity_strategies, \* Exchange._liquidity_strategies: pair -> strategy, NoStrategy when absent
    last_bars,            \* Exchange._last_bars: pair -> bar, NoBar when absent
    sources,              \* Exchange._bar_event_source: pairs that have a source
    queues,               \* the FIFO queue of each pair's source
    fee_strategy,         \* Exchange._fee_strategy: "NoFee" or "Percentage"
    handling,             \* dispatcher: the forwarded event a subscriber is handling
    bar_seq,              \* dispatcher: number of bar events delivered so far
    realized,             \* history: symbol -> sum of the committed fill flows
    match                 \* history: the matching of the latest bar

vars == <<available, holds, orders, open_orders, reindex_counter,
          liquidity_strategies, last_bars, sources, queues, fee_strategy,
          handling, bar_seq, realized, match>>

OrderIds == 1..MaxOrders
NoBar == [pair |-> P1, open |-> 0, high |-> 0, low |-> 0, close |-> 0,
          volume |-> 0, seq |-> 0]
NoEvent == [bar |-> NoBar, cached |-> FALSE, matched |-> FALSE]
NoMatch == [pair |-> P1, seq |-> 0, offered |-> 0, taken |-> 0, take_ok |-> TRUE,
            factory_called |-> FALSE, processed |-> <<>>]
NoStrategy == [total |-> -1, used |-> 0]

\* The exchange as one value, so that a handler is a function on it.
Cur == [available |-> available, holds |-> holds, orders |-> orders,
        open_orders |-> open_orders, reindex_counter |-> reindex_counter,
        liquidity_strategies |-> liquidity_strategies,
        last_bars |-> last_bars, sources |-> sources, queues |-> queues,
        fee_strategy |-> fee_strategy, realized |-> realized, match |-> match,
        liq |-> [total |-> 0, used |-> 0]]

Install(st) ==
    /\ available' = st.available
    /\ holds' = st.holds
    /\ orders' = st.orders
    /\ open_orders' = st.open_orders
    /\ reindex_counter' = st.reindex_counter
    /\ liquidity_strategies' = st.liquidity_strategies
    /\ last_bars' = st.last_bars
    /\ sources' = st.sources
    /\ queues' = st.queues
    /\ fee_strategy' = st.fee_strategy
    /\ realized' = st.realized
    /\ match' = st.match

\* ------------------------------------------------------- account balances
initial_balances == [s \in Symbols |->
    IF s = "USDT" THEN U(6) ELSE IF s = "BTC" THEN U(2) ELSE 0]

get_available_balance(st, symbol) == st.available[symbol]
get_balance_on_hold_for_order(st, id, symbol) == st.holds[id][symbol]
RECURSIVE SumHolds(_, _, _)
SumHolds(h, symbol, n) ==
    IF n = 0 THEN 0 ELSE h[n][symbol] + SumHolds(h, symbol, n - 1)
get_balance_on_hold(st, symbol) == SumHolds(st.holds, symbol, MaxOrders)

\* order_accepted: move each required amount from available to the order's hold.
order_accepted(st, id, required) ==
    [st EXCEPT
        !.available = [s \in Symbols |-> st.available[s] - required[s]],
        !.holds[id] = [s \in Symbols |-> st.holds[id][s] + required[s]]]

\* order_updated: a negative component is taken from the order's hold first and
\* from available for the rest, a positive one is credited to available; once
\* the order is no longer open what is left of its hold returns to available.
order_updated(st, id, delta) ==
    LET is_open == st.orders[id].state = "OPEN"
        consumed(s) == IF delta[s] < 0 THEN Min(st.holds[id][s], -delta[s]) ELSE 0
        hold1(s) == st.holds[id][s] - consumed(s)
        avail1(s) == st.available[s] + delta[s] + consumed(s)
    IN  [st EXCEPT
            !.available = [s \in Symbols |->
                IF is_open THEN avail1(s) ELSE avail1(s) + hold1(s)],
            !.holds[id] = [s \in Symbols |-> IF is_open THEN hold1(s) ELSE 0]]

\* ----------------------------------------------------- liquidity strategy
volume_limit_pct == 25
\* on_bar: the share of the bar's volume that can be filled, nothing used yet.
on_bar(bar) == [total |-> (bar.volume * volume_limit_pct) \div 100, used |-> 0]
available_liquidity(liq) == liq.total - liq.used
\* calculate_price_impact: the quadratic consumed^2 / total^2 of the maximum
\* impact (half a price unit), to the nearest half unit.
calculate_price_impact(liq, base_amount) ==
    LET consumed == liq.used + base_amount
    IN  IF liq.total = 0 THEN 0
        ELSE (Den \div 2) *
             ((2 * consumed * consumed + liq.total * liq.total)
                 \div (2 * liq.total * liq.total))
take_liquidity(liq, base_amount) == [liq EXCEPT !.used = liq.used + base_amount]

\* ----------------------------------------------------------- fee strategy
\* calculate_fees: nothing (NoFee), or a quarter of the quote amount, charged
\* in the quote symbol; the entries are the deltas the account pays (<= 0).
calculate_fees(strategy, order, balance_updates) ==
    IF strategy = "NoFee" THEN NoAmounts
    ELSE [s \in Symbols |->
            IF s = order.pair.quote_symbol
            THEN -(Abs(balance_updates[s]) \div 4) ELSE 0]


\* ----------------------------------------------------------------- orders
\* requests.*.create_order: the order a request makes, OPEN and unfilled.
\* ctx_seq and fill_seqs are history: the bar whose subscriber handler created
\* the order (0: none) and the bars that filled it.
new_order(request, ctx_seq) ==
    [kind |-> request.kind, operation |-> request.operation, pair |-> request.pair,
     amount |-> request.amount, amount_filled |-> 0, fees |-> NoAmounts,
     state |-> "OPEN", limit_price |-> request.limit_price,
     stop_price |-> request.stop_price, triggered |-> FALSE,
     ctx_seq |-> ctx_seq, fill_seqs |-> {}]

is_open(order) == order.state = "OPEN"

\* The update of a fill of base_amount at price (before rounding and fees).
fill_updates(order, base_amount, price) ==
    LET base_sign == get_base_sign_for_operation(order.operation)
    IN  [s \in Symbols |->
            IF s = order.pair.base_symbol THEN base_amount * base_sign
            ELSE IF s = order.pair.quote_symbol
                 THEN Mul(base_amount, price) * (-base_sign)
                 ELSE 0]

\* A variant of the fillable base amount that ignores what is left of the order.
fillable_base_whole_liquidity(order, liq) == available_liquidity(liq)

\* The fillable base amount: what is left of the order, within the liquidity.
fillable_base(order, liq) ==
    Min(order.amount - order.amount_filled, available_liquidity(liq))

\* A price moved by the impact of base_amount: up for BUY, down for SELL.
slipped_price(order, price, base_amount, liq) ==
    price + get_base_sign_for_operation(order.operation)
              * calculate_price_impact(liq, base_amount)

market_updates(order, price, liq) ==
    LET base_amount == fillable_base(order, liq)
    IN  IF base_amount = 0 THEN NoAmounts
        ELSE fill_updates(order, base_amount,
                          slipped_price(order, price, base_amount, liq))

limit_updates(order, bar, liq) ==
    LET base_amount == fillable_base(order, liq)
        buy == order.operation = "BUY"
        admits == IF buy THEN bar.low <= order.limit_price
                  ELSE bar.high >= order.limit_price
        price == IF buy THEN Min(order.limit_price, bar.open)
                 ELSE Max(order.limit_price, bar.open)
        slipped == slipped_price(order, price, base_amount, liq)
        clamped == IF buy THEN Min(order.limit_price, slipped)
                   ELSE Max(order.limit_price, slipped)
    IN  IF ~admits \/ base_amount = 0 THEN NoAmounts
        ELSE fill_updates(order, base_amount, clamped)

\* Whether the bar's range crosses the stop price.
stop_hit(order, bar) ==
    IF order.operation = "BUY" THEN bar.high >= order.stop_price
    ELSE bar.low <= order.stop_price

\* Order.get_balance_updates: the unrounded, pre-fee update of one bar, and the
\* value of the order's triggered flag after the call.
get_balance_updates(order, bar, liq) ==
    LET triggered == order.triggered \/
                     (order.kind \in {"Stop", "StopLimit"} /\ stop_hit(order, bar))
        trigger_price == IF order.operation = "BUY"
                         THEN Max(bar.open, order.stop_price)
                         ELSE Min(bar.open, order.stop_price)
        updates ==
            CASE order.kind = "Market" -> market_updates(order, bar.open, liq)
              [] order.kind = "Limit" -> limit_updates(order, bar, liq)
              [] order.kind = "Stop" ->
                    IF ~triggered THEN NoAmounts
                    ELSE IF order.triggered
                         THEN market_updates(order, bar.open, liq)
                         ELSE market_updates(order, trigger_price, liq)
              [] OTHER ->
                    IF ~triggered THEN NoAmounts
                    ELSE limit_updates(order, bar, liq)
    IN  [updates |-> updates, triggered |-> triggered]

\* Order.add_fill: amount_filled grows by |base|, the fees accumulate, and the
\* order is COMPLETED iff it is filled in full.
add_fill(order, seq, balance_updates, fees) ==
    LET filled == order.amount_filled + Abs(balance_updates[order.pair.base_symbol])
    IN  [order EXCEPT
            !.amount_filled = filled,
            !.fees = add_amounts(order.fees, fees),
            !.state = IF filled = order.amount THEN "COMPLETED" ELSE order.state,
            !.fill_seqs = order.fill_seqs \cup {seq}]

\* Order.not_filled: a Market order cancels itself, the other kinds stay open.
not_filled(order) ==
    IF order.kind = "Market" THEN [order EXCEPT !.state = "CANCELED"] ELSE order

\* Order.cancel
cancel(order) == [order EXCEPT !.state = "CANCELED"]

\* --------------------------------------------------------------- requests
\* ExchangeOrder.validate: a positive amount at the base precision, and
\* positive prices at the quote precision where the kind has them.
validate(request) ==
    LET price_ok(p) == p > 0 /\ p % Den = 0
    IN  /\ request.amount > 0
        /\ request.amount % Den = 0
        /\ request.kind \in {"Limit", "StopLimit"} => price_ok(request.limit_price)
        /\ request.kind \in {"Stop", "StopLimit"} => price_ok(request.stop_price)

\* ExchangeOrder.get_estimated_fill_price: 0 stands for None.
get_estimated_fill_price(request) ==
    CASE request.kind = "Limit" -> request.limit_price
      [] request.kind \in {"Stop", "StopLimit"} -> request.stop_price
      [] OTHER -> 0


\* ------------------------------------------------------------- OrderIndex
\* A variant of add_order that puts the new order at the head of the list of
\* open orders.
add_order_at_head(st, order) ==
    [st EXCEPT !.orders = Append(st.orders, order),
               !.open_orders = IF is_open(order)
                               THEN <<Len(st.orders) + 1>> \o st.open_orders
                               ELSE st.open_orders]

\* OrderIndex.add_order: the id of an order is its place in orders.
add_order(st, order) ==
    [st EXCEPT !.orders = Append(st.orders, order),
               !.open_orders = IF is_open(order)
                               THEN Append(st.open_orders, Len(st.orders) + 1)
                               ELSE st.open_orders]

\* OrderIndex.get_order: whether the id is known.
has_order(st, id) == id \in 1..Len(st.orders)

\* ----------------------------------------------------- Exchange: rounding
\* A variant of _round_balance_updates that rounds the base amount half-even
\* as well.
round_balance_updates_nearest(pair, balance_updates) ==
    [s \in Symbols |->
        IF s \in {pair.base_symbol, pair.quote_symbol}
        THEN round_decimal(balance_updates[s])
        ELSE balance_updates[s]]

\* Exchange._round_balance_updates: the base amount truncated, the quote
\* amount rounded half-even, 0 (no entry) staying 0.
round_balance_updates(pair, balance_updates) ==
    [s \in Symbols |->
        IF s = pair.base_symbol THEN truncate_decimal(balance_updates[s])
        ELSE IF s = pair.quote_symbol THEN round_decimal(balance_updates[s])
        ELSE balance_updates[s]]

\* Exchange._round_fees: base and quote fees rounded away from zero, a fee in
\* another symbol left as it is.
round_fees(pair, fees) ==
    [s \in Symbols |->
        IF s \in {pair.base_symbol, pair.quote_symbol}
        THEN round_decimal_up(fees[s]) ELSE fees[s]]

\* --------------------------------------------- Exchange: order submission
\* Exchange.get_balance
get_balance(st, symbol) ==
    [available |-> get_available_balance(st, symbol),
     total |-> get_available_balance(st, symbol) + get_balance_on_hold(st, symbol)]

\* Exchange._get_last_price: 0 stands for None.
get_last_price(st, pair) ==
    IF st.last_bars[pair] # NoBar THEN st.last_bars[pair].close ELSE 0

\* A variant of _estimate_required_balances that returns the size of every
\* estimated update as required, not only of the negative ones.
estimate_required_balances_any_sign(st, request) ==
    LET base_sign == get_base_sign_for_operation(request.operation)
        own_price == get_estimated_fill_price(request)
        estimated_fill_price ==
            IF own_price = 0 THEN get_last_price(st, request.pair) ELSE own_price
        estimated == [s \in Symbols |->
            IF s = request.pair.base_symbol THEN request.amount * base_sign
            ELSE IF s = request.pair.quote_symbol /\ estimated_fill_price # 0
                 THEN Mul(request.amount, estimated_fill_price) * (-base_sign)
                 ELSE 0]
        rounded == round_balance_updates(request.pair, estimated)
        both == rounded[request.pair.base_symbol] # 0
                /\ rounded[request.pair.quote_symbol] # 0
        fees == IF both
                THEN round_fees(request.pair,
                        calculate_fees(st.fee_strategy, new_order(request, 0), rounded))
                ELSE NoAmounts
        total == add_amounts(rounded, fees)
    IN  [s \in Symbols |-> Abs(total[s])]

\* Exchange._estimate_required_balances
estimate_required_balances(st, request) ==
    LET base_sign == get_base_sign_for_operation(request.operation)
        own_price == get_estimated_fill_price(request)
        estimated_fill_price ==
            IF own_price = 0 THEN get_last_price(st, request.pair) ELSE own_price
        estimated == [s \in Symbols |->
            IF s = request.pair.base_symbol THEN request.amount * base_sign
            ELSE IF s = request.pair.quote_symbol /\ estimated_fill_price # 0
                 THEN Mul(request.amount, estimated_fill_price) * (-base_sign)
                 ELSE 0]
        rounded == round_balance_updates(request.pair, estimated)
        both == rounded[request.pair.base_symbol] # 0
                /\ rounded[request.pair.quote_symbol] # 0
        fees == IF both
                THEN round_fees(request.pair,
                        calculate_fees(st.fee_strategy, new_order(request, 0), rounded))
                ELSE NoAmounts
        total == add_amounts(rounded, fees)
    IN  [s \in Symbols |-> IF total[s] < 0 THEN -total[s] ELSE 0]

\* A variant of _check_available_balance that also raises when the available
\* balance equals the required one.
check_available_balance_strict(st, required_balance) ==
    \A s \in Symbols :
        required_balance[s] # 0 => ~(get_available_balance(st, s) <= required_balance[s])

\* Exchange._check_available_balance: TRUE when it does not raise.
check_available_balance(st, required_balance) ==
    \A s \in Symbols :
        required_balance[s] # 0 => ~(get_available_balance(st, s) < required_balance[s])

\* A variant of cancel_order that does not release the hold.
cancel_order_keeping_hold(st, order_id) ==
    IF ~has_order(st, order_id)
    THEN [st |-> st, result |-> "not_found", id |-> order_id]
    ELSE IF ~is_open(st.orders[order_id])
         THEN [st |-> st, result |-> "not_open", id |-> order_id]
         ELSE [st |-> [st EXCEPT !.orders[order_id] = cancel(@)],
               result |-> "canceled", id |-> order_id]

\* A variant of cancel_order that does not look at the state of the order.
cancel_order_any_state(st, order_id) ==
    IF ~has_order(st, order_id)
    THEN [st |-> st, result |-> "not_found", id |-> order_id]
    ELSE [st |-> order_updated(
                   [st EXCEPT !.orders[order_id] = cancel(@)], order_id, NoAmounts),
          result |-> "canceled", id |-> order_id]

\* A variant of cancel_order that updates the balances before it cancels the
\* order.
cancel_order_updating_first(st, order_id) ==
    IF ~has_order(st, order_id)
    THEN [st |-> st, result |-> "not_found", id |-> order_id]
    ELSE IF ~is_open(st.orders[order_id])
         THEN [st |-> st, result |-> "not_open", id |-> order_id]
         ELSE [st |-> [order_updated(st, order_id, NoAmounts)
                          EXCEPT !.orders[order_id] = cancel(@)],
               result |-> "canceled", id |-> order_id]

\* Exchange.cancel_order
cancel_order(st, order_id) ==
    IF ~has_order(st, order_id)
    THEN [st |-> st, result |-> "not_found", id |-> order_id]
    ELSE IF ~is_open(st.orders[order_id])
         THEN [st |-> st, result |-> "not_open", id |-> order_id]
         ELSE [st |-> order_updated(
                        [st EXCEPT !.orders[order_id] = cancel(@)], order_id, NoAmounts),
               result |-> "canceled", id |-> order_id]

\* Exchange.get_order_info
get_order_info(st, order_id) ==
    IF ~has_order(st, order_id)
    THEN [st |-> st, result |-> "not_found", id |-> order_id]
    ELSE [st |-> st, result |-> "info", id |-> order_id]

\* Exchange.subscribe_to_bar_events: get or create the source of the pair.
subscribe_to_bar_events(st, pair) ==
    [st EXCEPT !.sources = st.sources \cup {pair}]


\* ------------------------------------------------------ Exchange: matching
\* A variant of order_not_filled that does not tell the order.
order_not_filled_untold(st, id) ==
    IF ~is_open(st.orders[id]) THEN order_updated(st, id, NoAmounts) ELSE st

\* A variant of order_not_filled that releases the hold of the order whether
\* or not the order is still open.
order_not_filled_releasing_hold(st, id) ==
    LET st1 == [st EXCEPT !.orders[id] = not_filled(@)]
    IN  [st1 EXCEPT
            !.available = [s \in Symbols |-> st1.available[s] + st1.holds[id][s]],
            !.holds[id] = NoAmounts]

\* _process_order.order_not_filled
order_not_filled(st, id) ==
    LET st1 == [st EXCEPT !.orders[id] = not_filled(@)]
    IN  IF ~is_open(st1.orders[id]) THEN order_updated(st1, id, NoAmounts) ELSE st1

\* A variant of the check below that counts the holds of every order on the
\* symbol, not only those of the order being filled.
balances_short_all_holds(st, id, final_updates) ==
    \E s \in Symbols :
        /\ final_updates[s] # 0
        /\ get_available_balance(st, s) + get_balance_on_hold(st, s)
             + final_updates[s] < 0

\* A variant of the check below that leaves the order's own hold out.
balances_short_ignoring_hold(st, id, final_updates) ==
    \E s \in Symbols :
        /\ final_updates[s] # 0
        /\ get_available_balance(st, s) + final_updates[s] < 0

\* Exchange._process_order, "Check if we're short on any balance".
balances_short(st, id, final_updates) ==
    \E s \in Symbols :
        /\ final_updates[s] # 0
        /\ get_available_balance(st, s) + get_balance_on_hold_for_order(st, id, s)
             + final_updates[s] < 0

\* A variant of the update below that leaves the fees out of the balances.
commit_fill_without_fees(st, id, bar, balance_updates, fees, final_updates) ==
    LET base_amount == Abs(balance_updates[bar.pair.base_symbol])
        st1 == [st EXCEPT
                  !.liq = take_liquidity(st.liq, base_amount),
                  !.orders[id] = add_fill(@, bar.seq, balance_updates, fees),
                  !.realized = add_amounts(@, balance_updates),
                  !.match.taken = @ + base_amount,
                  !.match.take_ok = @ /\ base_amount <= available_liquidity(st.liq)]
    IN  order_updated(st1, id, balance_updates)

\* A variant of the update below that goes on into the not-filled path after
\* the fill.
commit_fill_then_not_filled(st, id, bar, balance_updates, fees, final_updates) ==
    LET base_amount == Abs(balance_updates[bar.pair.base_symbol])
        st1 == [st EXCEPT
                  !.liq = take_liquidity(st.liq, base_amount),
                  !.orders[id] = add_fill(@, bar.seq, balance_updates, fees),
                  !.realized = add_amounts(@, balance_updates),
                  !.match.taken = @ + base_amount,
                  !.match.take_ok = @ /\ base_amount <= available_liquidity(st.liq)]
    IN  order_not_filled(order_updated(st1, id, final_updates), id)

\* Exchange._process_order, "Update": take the liquidity, add the fill to the
\* order, update the balances.  realized and match record what was committed.
commit_fill(st, id, bar, balance_updates, fees, final_updates) ==
    LET base_amount == Abs(balance_updates[bar.pair.base_symbol])
        st1 == [st EXCEPT
                  !.liq = take_liquidity(st.liq, base_amount),
                  !.orders[id] = add_fill(@, bar.seq, balance_updates, fees),
                  !.realized = add_amounts(@, balance_updates),
                  !.match.taken = @ + base_amount,
                  !.match.take_ok = @ /\ base_amount <= available_liquidity(st.liq)]
    IN  order_updated(st1, id, final_updates)

\* A variant of _process_order that commits the update as the order gave it,
\* without rounding it.
process_order_unrounded(st, id, bar) ==
    LET order == st.orders[id]
        got == get_balance_updates(order, bar, st.liq)
        st0 == [st EXCEPT !.orders[id].triggered = got.triggered]
        balance_updates == got.updates
        fees == round_fees(order.pair,
                    calculate_fees(st.fee_strategy, order, balance_updates))
        final_updates == add_amounts(balance_updates, fees)
    IN  IF got.updates = NoAmounts THEN order_not_filled(st0, id)
        ELSE IF ~balances_short(st0, id, final_updates)
             THEN commit_fill(st0, id, bar, balance_updates, fees, final_updates)
             ELSE order_not_filled(st0, id)

\* Exchange._process_order
process_order(st, id, bar) ==
    LET order == st.orders[id]
        got == get_balance_updates(order, bar, st.liq)
        st0 == [st EXCEPT !.orders[id].triggered = got.triggered]
        balance_updates == round_balance_updates(order.pair, got.updates)
        fees == round_fees(order.pair,
                    calculate_fees(st.fee_strategy, order, balance_updates))
        final_updates == add_amounts(balance_updates, fees)
    IN  IF got.updates = NoAmounts THEN order_not_filled(st0, id)
        ELSE IF balance_updates[order.pair.base_symbol] = 0
                \/ balance_updates[order.pair.quote_symbol] = 0
             THEN order_not_filled(st0, id)
             ELSE IF ~balances_short(st0, id, final_updates)
                  THEN commit_fill(st0, id, bar, balance_updates, fees, final_updates)
                  ELSE order_not_filled(st0, id)

\* A variant of the test below that hands every entry of the list on.
yields_any(order) == TRUE

\* OrderIndex.get_open_orders, "if order.is_open: yield order".
yields(order) == is_open(order)

\* The filter of _process_orders letting the orders of every pair through.
selected_any_pair(order, bar) == TRUE

\* Exchange._process_orders, the filter on the generator.
selected(order, bar) == order.pair = bar.pair

\* The loop of OrderIndex.get_open_orders with the rebuilt list made of the
\* orders the consumer took only: open orders of other pairs are left out.
RECURSIVE iterate_open_orders_keeping_selected(_, _, _, _)
iterate_open_orders_keeping_selected(st, bar, i, new_open_orders) ==
    IF i > Len(st.open_orders)
    THEN [st |-> st, new_open_orders |-> new_open_orders]
    ELSE LET id == st.open_orders[i]
             st1 == IF selected(st.orders[id], bar)
                    THEN process_order(
                             [st EXCEPT !.match.processed = Append(@, id)], id, bar)
                    ELSE st
         IN  IF yields(st.orders[id])
             THEN iterate_open_orders_keeping_selected(st1, bar, i + 1,
                      IF is_open(st1.orders[id]) /\ selected(st.orders[id], bar)
                      THEN Append(new_open_orders, id) ELSE new_open_orders)
             ELSE iterate_open_orders_keeping_selected(st, bar, i + 1,
                      new_open_orders)

\* The loop of OrderIndex.get_open_orders driven by _process_orders: each entry
\* of the list that is open when reached is handed to the consumer, and when
\* the list is being rebuilt it is kept if it is still open afterwards.
\* match.processed records the orders handed to _process_order, in order.
RECURSIVE iterate_open_orders(_, _, _, _)
iterate_open_orders(st, bar, i, new_open_orders) ==
    IF i > Len(st.open_orders)
    THEN [st |-> st, new_open_orders |-> new_open_orders]
    ELSE LET id == st.open_orders[i]
             st1 == IF selected(st.orders[id], bar)
                    THEN process_order(
                             [st EXCEPT !.match.processed = Append(@, id)], id, bar)
                    ELSE st
         IN  IF yields(st.orders[id])
             THEN iterate_open_orders(st1, bar, i + 1,
                      IF is_open(st1.orders[id])
                      THEN Append(new_open_orders, id) ELSE new_open_orders)
             ELSE iterate_open_orders(st, bar, i + 1, new_open_orders)

\* OrderIndex.get_open_orders around the loop: count the iteration and, on
\* every reindex_every-th one, replace the list by the orders still open.
get_open_orders(st, bar) ==
    LET counted == [st EXCEPT !.reindex_counter = st.reindex_counter + 1]
        done == iterate_open_orders(counted, bar, 1, <<>>)
    IN  IF counted.reindex_counter % reindex_every = 0
        THEN [done.st EXCEPT !.open_orders = done.new_open_orders]
        ELSE done.st

\* The argument pair=None of Exchange.get_open_orders: no filter.
NoPair == [base_symbol |-> "", quote_symbol |-> ""]

\* The loop of OrderIndex.get_open_orders driven by the list comprehension of
\* Exchange.get_open_orders: each entry of the list that is open when reached
\* is yielded, the comprehension keeps it if it passes the pair filter, and
\* when the list is being rebuilt the entry is kept if it is still open.
RECURSIVE list_open_orders(_, _, _, _, _)
list_open_orders(st, pair, i, new_open_orders, result) ==
    IF i > Len(st.open_orders)
    THEN [new_open_orders |-> new_open_orders, result |-> result]
    ELSE LET id == st.open_orders[i]
             order == st.orders[id]
         IN  IF yields(order)
             THEN list_open_orders(st, pair, i + 1,
                      IF is_open(order)
                      THEN Append(new_open_orders, id) ELSE new_open_orders,
                      IF pair = NoPair \/ order.pair = pair
                      THEN Append(result, id) ELSE result)
             ELSE list_open_orders(st, pair, i + 1, new_open_orders, result)

\* Exchange.get_open_orders: one iteration of the index (counted, with the
\* rebuild on every reindex_every-th one); the result is the ids of the open
\* orders returned.
exchange_get_open_orders(st, pair) ==
    LET counted == [st EXCEPT !.reindex_counter = st.reindex_counter + 1]
        done == list_open_orders(counted, pair, 1, <<>>, <<>>)
    IN  [st |-> IF counted.reindex_counter % reindex_every = 0
                THEN [counted EXCEPT !.open_orders = done.new_open_orders]
                ELSE counted,
         result |-> done.result]

\* Exchange._process_orders: the strategy of the pair (from the factory when
\* the dictionary has none; the dictionary is not written), on_bar, the loop.
process_orders(st, bar) ==
    LET from_factory == st.liquidity_strategies[bar.pair] = NoStrategy
        liquidity_strategy == on_bar(bar)
        st1 == [st EXCEPT
                  !.liq = liquidity_strategy,
                  !.match = [pair |-> bar.pair, seq |-> bar.seq,
                             offered |-> available_liquidity(liquidity_strategy),
                             taken |-> 0, take_ok |-> TRUE,
                             factory_called |-> from_factory,
                             processed |-> <<>>]]
    IN  get_open_orders(st1, bar)

\* ------------------------------------- Exchange: order submission (cont.)
\* A variant of create_order that matches the new order at once against the
\* cached bar of its pair.
create_order_matching_last_bar(st, request, ctx_seq) ==
    LET required_balances == estimate_required_balances(st, request)
        id == Len(st.orders) + 1
        accepted == order_accepted(add_order(st, new_order(request, ctx_seq)),
                                   id, required_balances)
        bar == st.last_bars[request.pair]
    IN  IF ~validate(request)
        THEN [st |-> st, result |-> "validation_error", id |-> 0]
        ELSE IF ~check_available_balance(st, required_balances)
             THEN [st |-> st, result |-> "insufficient_balance", id |-> 0]
             ELSE IF bar = NoBar
                  THEN [st |-> accepted, result |-> "created", id |-> id]
                  ELSE [st |-> process_order([accepted EXCEPT !.liq = on_bar(bar)],
                                             id, bar),
                        result |-> "created", id |-> id]

\* A variant of create_order that adds the order to the index before it checks
\* the balances.
create_order_indexing_first(st, request, ctx_seq) ==
    LET required_balances == estimate_required_balances(st, request)
        id == Len(st.orders) + 1
        indexed == add_order(st, new_order(request, ctx_seq))
    IN  IF ~validate(request)
        THEN [st |-> st, result |-> "validation_error", id |-> 0]
        ELSE IF ~check_available_balance(st, required_balances)
             THEN [st |-> indexed, result |-> "insufficient_balance", id |-> 0]
             ELSE [st |-> order_accepted(indexed, id, required_balances),
                   result |-> "created", id |-> id]

\* Exchange.create_order: the exchange after the call and what the call did.
create_order(st, request, ctx_seq) ==
    LET required_balances == estimate_required_balances(st, request)
        id == Len(st.orders) + 1
        accepted == order_accepted(add_order(st, new_order(request, ctx_seq)),
                                   id, required_balances)
    IN  IF ~validate(request)
        THEN [st |-> st, result |-> "validation_error", id |-> 0]
        ELSE IF ~check_available_balance(st, required_balances)
             THEN [st |-> st, result |-> "insufficient_balance", id |-> 0]
             ELSE [st |-> accepted, result |-> "created", id |-> id]

\* event_source.push(event): cached and matched record whether the cache held
\* the bar and its matching had run when it was pushed.
push(st, bar) ==
    [st EXCEPT !.queues[bar.pair] =
        Append(@, [bar |-> bar,
                   cached |-> st.last_bars[bar.pair] = bar,
                   matched |-> st.match.seq = bar.seq])]

\* Exchange._on_bar_event, "Forward the event to the right source, if any".
forward(st, bar) == IF bar.pair \in st.sources THEN push(st, bar) ELSE st

\* A variant of _on_bar_event that forwards the bar before it matches.
on_bar_event_forwarding_first(st, bar) ==
    process_orders(forward([st EXCEPT !.last_bars[bar.pair] = bar], bar), bar)

\* Exchange._on_bar_event: cache the bar, match the open orders, forward.
on_bar_event(st, bar) ==
    forward(process_orders([st EXCEPT !.last_bars[bar.pair] = bar], bar), bar)

\* ----------------------------------------------------------------- inputs
Req(kind, operation, pair, amount, limit_price, stop_price) ==
    [kind |-> kind, operation |-> operation, pair |-> pair, amount |-> amount,
     limit_price |-> limit_price, stop_price |-> stop_price]

\* The requests a strategy may submit.
Requests ==
    { Req("Market", "BUY", P1, U(2), 0, 0),
      Req("Market", "SELL", P1, U(1), 0, 0),
      Req("Limit", "BUY", P1, U(1), U(2), 0),
      Req("Stop", "SELL", P1, U(2), 0, U(1)),
      Req("StopLimit", "BUY", P1, U(1), U(3), U(3)),
      Req("Market", "BUY", P2, U(1), 0, 0),
      Req("Limit", "BUY", P2, U(4), U(2), 0),
      Req("Market", "SELL", P2, U(1), 0, 0),
      Req("Market", "BUY", P1, 0, 0, 0) }

Shape(pair, open, high, low, close, volume) ==
    [pair |-> pair, open |-> U(open), high |-> U(high), low |-> U(low),
     close |-> U(close), volume |-> U(volume), seq |-> 0]

\* The bars the bar sources may produce (seq is set on delivery): for P1 a
\* bar with liquidity 1.5, a dearer bar with liquidity 2 and a bar without
\* volume; for P2 a bar with liquidity 2.
Bars ==
    { Shape(P1, 2, 3, 1, 2, 6),
      Shape(P1, 3, 3, 2, 3, 8),
      Shape(P1, 1, 2, 1, 1, 0),
      Shape(P2, 1, 1, 1, 1, 8) }

\* The requests a subscriber's handler may submit.
HandlerRequests ==
    { Req("Market", "BUY", P1, U(2), 0, 0),
      Req("Limit", "BUY", P1, U(1), U(2), 0),
      Req("Market", "BUY", P2, U(1), 0, 0) }

\* How the exchange is set up: its fee strategy, and the calls of
\* Exchange.get_open_orders made on the new, empty exchange before the run
\* (they change nothing but the reindex counter).
Setups ==
    { [fee_strategy |-> "NoFee", warmup_calls |-> 0],
      [fee_strategy |-> "Percentage", warmup_calls |-> reindex_every - 2] }

\* ------------------------------------------------------------------- Init
Init ==
    /\ available = initial_balances
    /\ holds = [id \in OrderIds |-> NoAmounts]
    /\ orders = <<>>
    /\ open_orders = <<>>
    /\ \E setup \in Setups :
          /\ fee_strategy = setup.fee_strategy
          /\ reindex_counter = setup.warmup_calls
    /\ liquidity_strategies = [p \in Pairs |-> NoStrategy]
    /\ last_bars = [p \in Pairs |-> NoBar]
    /\ sources = {}
    /\ queues = [p \in Pairs |-> <<>>]
    /\ handling = NoEvent
    /\ bar_seq = 0
    /\ realized = NoAmounts
    /\ match = NoMatch

\* ---------------------------------------------------------------- actions
dispatcher_vars == <<handling, bar_seq>>
exchange_vars == <<available, holds, orders, open_orders, reindex_counter,
                   liquidity_strategies, last_bars, sources, fee_strategy,
                   realized, match>>

\* The dispatcher delivers the next bar of a bar source to _on_bar_event.  The
\* forwarded events of the pair have been delivered before its next bar is.
DeliverBar ==
    \E shape \in Bars :
        /\ bar_seq < MaxBars
        /\ handling = NoEvent
        /\ queues[shape.pair] = <<>>
        /\ Install(on_bar_event(Cur, [shape EXCEPT !.seq = bar_seq + 1]))
        /\ bar_seq' = bar_seq + 1
        /\ UNCHANGED handling

\* The dispatcher hands the oldest forwarded event of a pair to its subscriber.
Dispatch ==
    \E p \in Pairs :
        /\ handling = NoEvent
        /\ queues[p] # <<>>
        /\ handling' = Head(queues[p])
        /\ queues' = [queues EXCEPT ![p] = Tail(@)]
        /\ UNCHANGED <<exchange_vars, bar_seq>>

\* The subscriber's handler returns.
Return ==
    /\ handling # NoEvent
    /\ handling' = NoEvent
    /\ UNCHANGED <<exchange_vars, queues, bar_seq>>

\* Exchange.create_order with one of the given requests; the order remembers
\* the bar being handled, if any.
CreateOrderOf(requests) ==
    \E request \in requests :
        /\ Len(orders) < MaxOrders
        /\ Install(create_order(Cur, request, handling.bar.seq).st)
        /\ UNCHANGED dispatcher_vars

\* Exchange.cancel_order
CancelOrderOf(ids) ==
    \E order_id \in ids :
        /\ Install(cancel_order(Cur, order_id).st)
        /\ UNCHANGED dispatcher_vars

\* Exchange.get_order_info
GetOrderInfo ==
    \E order_id \in OrderIds :
        /\ Install(get_order_info(Cur, order_id).st)
        /\ UNCHANGED dispatcher_vars

\* Exchange.subscribe_to_bar_events, before the run starts.
Subscribe ==
    \E p \in Pairs :
        /\ bar_seq = 0
        /\ p \notin sources
        /\ Install(subscribe_to_bar_events(Cur, p))
        /\ UNCHANGED dispatcher_vars

\* The strategy calls the exchange between two events.
CreateOrder == handling = NoEvent /\ CreateOrderOf(Requests)
CancelOrder == handling = NoEvent /\ CancelOrderOf(OrderIds)

\* The exchange driven by its bar sources and by a strategy that calls it
\* between the events.
Next ==
    \/ DeliverBar
    \/ CreateOrder
    \/ CancelOrder
    \/ GetOrderInfo

Spec == Init /\ [][Next]_vars

\* The strategy calls the exchange from a subscriber's handler.
HandlerCreateOrder == handling # NoEvent /\ CreateOrderOf(HandlerRequests)
HandlerCancelOrder == handling # NoEvent /\ CancelOrderOf(OrderIds)

\* The exchange with subscribers: every forwarded bar is handled by a
\* subscriber, which may call the exchange.
NextDispatch ==
    \/ Subscribe
    \/ DeliverBar
    \/ Dispatch
    \/ Return
    \/ HandlerCreateOrder
    \/ HandlerCancelOrder

SpecDispatch == Init /\ [][NextDispatch]_vars

\* Exchange.get_open_orders, for one pair or for all of them.  The calls made
\* since the run started are the iterations of the index that are neither the
\* calls made before the run nor bars.
calls_before_run == reindex_every - 2
calls_in_run == reindex_counter - calls_before_run - bar_seq
GetOpenOrders ==
    \E pair \in Pairs \cup {NoPair} :
        /\ handling = NoEvent
        /\ calls_in_run < MaxCalls
        /\ Install(exchange_get_open_orders(Cur, pair).st)
        /\ UNCHANGED dispatcher_vars

\* The exchange whose index is two iterations away from a rebuild, driven by
\* its bar sources and by a strategy that creates and cancels orders and lists
\* the open ones between the events.
InitIndex == Init /\ reindex_counter = calls_before_run
FewCreateOrder == handling = NoEvent /\ CreateOrderOf(HandlerRequests)
NextIndex ==
    \/ DeliverBar
    \/ FewCreateOrder
    \/ CancelOrder
    \/ GetOpenOrders

SpecIndex == InitIndex /\ [][NextIndex]_vars

\* ----------------------------------------------------------------- claims
Known == 1..Len(orders)
closed(order) == order.state \in {"COMPLETED", "CANCELED"}

\* C1 (non-negativity): after any sequence of create_order, cancel_order and
\* bar events the available balance of every symbol is >= 0 and every hold of
\* every order is >= 0.
C1_NonNegative ==
    \A s \in Symbols :
        /\ available[s] >= 0
        /\ \A id \in OrderIds : holds[id][s] >= 0

\* A Market BUY was cancelled unfilled by a bar that offered liquidity (the
\* fill was not affordable), while another order still holds part of the
\* balance.
C1_Witness ==
    \E i, j \in Known :
        /\ orders[i].kind = "Market" /\ orders[i].operation = "BUY"
        /\ orders[i].state = "CANCELED" /\ orders[i].amount_filled = 0
        /\ match.pair = orders[i].pair /\ match.offered >= orders[i].amount
        /\ match.taken = 0
        /\ orders[j].state = "OPEN" /\ holds[j]["USDT"] > 0

\* C2 (conservation): for every symbol, the total of get_balance (available
\* plus all holds) is the initial balance plus the committed fill flows minus
\* the fees charged (orders accumulate their fees as the deltas paid, <= 0);
\* so create_order, cancel_order and the not-filled path, which commit
\* nothing, leave the total as it is.
RECURSIVE fees_paid(_, _)
fees_paid(s, n) == IF n = 0 THEN 0 ELSE -orders[n].fees[s] + fees_paid(s, n - 1)
C2_Conservation ==
    \A s \in Symbols :
        get_balance(Cur, s).total
            = initial_balances[s] + realized[s] - fees_paid(s, Len(orders))

\* A fee has been charged on a fill while another order holds a balance.
C2_Witness ==
    \E i, j \in Known :
        /\ orders[i].fees["USDT"] < 0 /\ orders[i].amount_filled > 0
        /\ realized["USDT"] # 0
        /\ orders[j].state = "OPEN" /\ holds[j]["USDT"] > 0

\* C3 (hold release): an order that is COMPLETED or CANCELED holds nothing,
\* on any symbol, whichever way it left OPEN.
C3_HoldRelease ==
    \A id \in Known :
        closed(orders[id]) => \A s \in Symbols : holds[id][s] = 0

\* A Limit order, which held its quote amount, was cancelled by cancel_order,
\* and another order was completed by its final fill.
C3_Witness ==
    \E i, j \in Known :
        /\ orders[i].kind = "Limit" /\ orders[i].state = "CANCELED"
        /\ orders[j].state = "COMPLETED"

\* C4 (no look-ahead): an order created by a subscriber's handler while bar t
\* is being handled is never filled by bar t or an earlier bar: every bar that
\* fills it is delivered to the exchange after t.
C4_NoLookAhead ==
    \A id \in Known :
        orders[id].ctx_seq > 0 =>
            \A q \in orders[id].fill_seqs : q > orders[id].ctx_seq

\* An order created while bar t was being handled has been filled by bar
\* t + 1, a bar of its pair, and by no other.
C4_Witness ==
    \E id \in Known :
        /\ orders[id].ctx_seq > 0
        /\ orders[id].fill_seqs = {orders[id].ctx_seq + 1}
        /\ last_bars[orders[id].pair].seq = orders[id].ctx_seq + 1

\* What a call leaves of the exchange for C5 to compare.
observable(st) ==
    [available |-> st.available, holds |-> st.holds,
     index |-> 1..Len(st.orders), open_orders |-> st.open_orders,
     orders |-> st.orders, last_bars |-> st.last_bars]

\* C5 (a failing operation changes nothing): in every reachable state, a
\* create_order that raises (validation, insufficient balance), a cancel_order
\* that raises (not found, not open) and a get_order_info that raises (not
\* found) leave the balances, the holds, the index, every order and the last-bar
\* cache as they were before the call.
C5_FailureChangesNothing ==
    /\ \A request \in Requests :
          LET call == create_order(Cur, request, 0)
          IN  call.result # "created" => observable(call.st) = observable(Cur)
    /\ \A order_id \in 1..(MaxOrders + 1) :
          LET call == cancel_order(Cur, order_id)
          IN  call.result # "canceled" => observable(call.st) = observable(Cur)
    /\ \A order_id \in 1..(MaxOrders + 1) :
          LET call == get_order_info(Cur, order_id)
          IN  call.result # "info" => observable(call.st) = observable(Cur)

\* A state with balances on hold where each of the failures can happen: a
\* request that fails validation, one that the balances do not cover, an
\* order that is not open, an id that is not known.
C5_Witness ==
    /\ \E request \in Requests : create_order(Cur, request, 0).result = "validation_error"
    /\ \E request \in Requests : create_order(Cur, request, 0).result = "insufficient_balance"
    /\ \E order_id \in Known : cancel_order(Cur, order_id).result = "not_open"
    /\ cancel_order(Cur, Len(orders) + 1).result = "not_found"
    /\ get_order_info(Cur, Len(orders) + 1).result = "not_found"
    /\ \E order_id \in Known : holds[order_id]["USDT"] > 0
    /\ last_bars[P1] # NoBar

\* C6 (one-shot transitions): an order that is COMPLETED or CANCELED keeps its
\* state, its amount_filled, its fees and the bars that filled it in every
\* step: no later bar event fills it or takes liquidity for it.
C6_OneShot ==
    [][\A id \in Known :
          closed(orders[id]) =>
              /\ orders'[id].state = orders[id].state
              /\ orders'[id].amount_filled = orders[id].amount_filled
              /\ orders'[id].fees = orders[id].fees
              /\ orders'[id].fill_seqs = orders[id].fill_seqs]_vars

\* A Limit order was cancelled unfilled while in the list of open orders; the
\* latest bar, of its pair, reached its limit price, offered liquidity that
\* nobody took, and rebuilt the list, which dropped the order.
C6_Witness ==
    \E id \in Known :
        /\ orders[id].kind = "Limit" /\ orders[id].operation = "BUY"
        /\ orders[id].state = "CANCELED" /\ orders[id].amount_filled = 0
        /\ \A i \in 1..Len(open_orders) : open_orders[i] # id
        /\ reindex_counter = reindex_every
        /\ match.pair = orders[id].pair /\ match.seq = bar_seq
        /\ last_bars[match.pair].low <= orders[id].limit_price
        /\ match.offered >= Den /\ match.taken = 0

\* C7 (monotonic fills): 0 <= amount_filled <= amount for every order in
\* every reachable state, and no step decreases an order's amount_filled.
C7_MonotonicFills ==
    /\ [](\A id \in Known :
            /\ 0 <= orders[id].amount_filled
            /\ orders[id].amount_filled <= orders[id].amount)
    /\ [][\A id \in Known :
            orders'[id].amount_filled >= orders[id].amount_filled]_vars

\* An order has been filled in part by one bar and completed by another.
C7_Witness ==
    \E id \in Known :
        /\ Cardinality(orders[id].fill_seqs) = 2
        /\ orders[id].amount_filled = orders[id].amount
        /\ orders[id].state = "COMPLETED"

\* C8 (liquidity boundedness): the base amounts committed during the matching
\* of a bar sum to at most the liquidity on_bar made available for it, the
\* share volume_limit_pct of the bar's volume, and every take_liquidity was
\* called with at most the liquidity available at the time.
C8_LiquidityBounded ==
    /\ match.take_ok
    /\ 0 <= match.taken /\ match.taken <= match.offered
    /\ match.seq > 0 =>
          /\ last_bars[match.pair].seq = match.seq
          /\ match.offered * 100 <= last_bars[match.pair].volume * volume_limit_pct

\* A bar offered less than an order asked for (1.5 for 2) and the order took
\* what the bar could fill.
C8_Witness ==
    \E id \in Known :
        /\ match.seq > 0 /\ match.seq \in orders[id].fill_seqs
        /\ match.offered < orders[id].amount
        /\ match.taken > 0 /\ match.taken = orders[id].amount_filled

\* C9 (matching precedes forwarding): every forwarded event sits in the source
\* of its own pair, which has a subscriber, and was pushed when the cache held
\* its bar and the matching of that bar had run; the cache still holds the bar
\* while the event waits and while it is handled; and a step forwards at most
\* one event, that of the bar just delivered, so no bar is forwarded twice.
C9_MatchingPrecedesForwarding ==
    /\ [](\A p \in Pairs : \A i \in 1..Len(queues[p]) :
            /\ queues[p][i].bar.pair = p
            /\ p \in sources
            /\ queues[p][i].cached /\ queues[p][i].matched
            /\ last_bars[p] = queues[p][i].bar
            /\ match.seq >= queues[p][i].bar.seq)
    /\ [](handling # NoEvent =>
            /\ handling.cached /\ handling.matched
            /\ last_bars[handling.bar.pair] = handling.bar
            /\ match.seq >= handling.bar.seq)
    /\ [][/\ \A p \in Pairs :
               \/ queues'[p] = queues[p]
               \/ queues[p] # <<>> /\ queues'[p] = Tail(queues[p])
                                   /\ handling' = Head(queues[p])
               \/ /\ Len(queues'[p]) = Len(queues[p]) + 1
                  /\ queues'[p] = Append(queues[p], queues'[p][Len(queues'[p])])
                  /\ bar_seq' = bar_seq + 1
                  /\ queues'[p][Len(queues'[p])].bar.seq = bar_seq'
                  /\ queues'[p][Len(queues'[p])].bar.pair = p
          /\ Cardinality({p \in Pairs : Len(queues'[p]) > Len(queues[p])}) <= 1]_vars

\* A subscriber's handler is handling the bar that completed an order.
C9_Witness ==
    /\ handling # NoEvent
    /\ \E id \in Known :
          /\ handling.bar.seq \in orders[id].fill_seqs
          /\ orders[id].pair = handling.bar.pair
          /\ orders[id].state = "COMPLETED"

\* C10 (order acceptance): in every reachable state a valid request is
\* accepted iff every available balance covers what the request requires; the
\* accepted order is OPEN and unfilled, what is required moves from available
\* to the new order's hold, and the other orders and their holds stay as they
\* are.
C10_Acceptance ==
    \A request \in Requests :
        (validate(request) /\ Len(orders) < MaxOrders) =>
            LET required == estimate_required_balances(Cur, request)
                call == create_order(Cur, request, 0)
                id == Len(orders) + 1
            IN  /\ (call.result = "created")
                      <=> (\A s \in Symbols : available[s] >= required[s])
                /\ call.result = "created" =>
                      /\ call.id = id
                      /\ Len(call.st.orders) = id
                      /\ call.st.orders[id].state = "OPEN"
                      /\ call.st.orders[id].amount_filled = 0
                      /\ \A s \in Symbols :
                            /\ call.st.available[s] = available[s] - required[s]
                            /\ call.st.holds[id][s] = required[s]
                      /\ \A other \in Known :
                            /\ call.st.holds[other] = holds[other]
                            /\ call.st.orders[other] = orders[other]

\* An order that required all of the available USDT was accepted and holds
\* it, and a request that requires some is now refused.
C10_Witness ==
    /\ Len(orders) < MaxOrders
    /\ available["USDT"] = 0
    /\ \E id \in Known :
          /\ orders[id].state = "OPEN" /\ orders[id].amount_filled = 0
          /\ holds[id]["USDT"] = initial_balances["USDT"]
    /\ \E request \in Requests :
          /\ validate(request)
          /\ create_order(Cur, request, 0).result = "insufficient_balance"
    /\ \E request \in Requests :
          create_order(Cur, request, 0).result = "created"

\* C11 (idempotent cancel): in every reachable state, cancel_order on an order
\* that is COMPLETED or CANCELED raises the illegal-state error and leaves the
\* order as it is; and right after a successful cancel_order(id) a second
\* cancel_order(id) raises it.
C11_IdempotentCancel ==
    \A id \in Known :
        /\ closed(orders[id]) =>
              LET call == cancel_order(Cur, id)
              IN  /\ call.result = "not_open"
                  /\ call.st.orders[id] = orders[id]
        /\ is_open(orders[id]) =>
              LET first == cancel_order(Cur, id)
                  second == cancel_order(first.st, id)
              IN  /\ first.result = "canceled"
                  /\ second.result = "not_open"
                  /\ second.st.orders[id].state = "CANCELED"
                  /\ second.st = first.st

\* A Stop order was cancelled by cancel_order after a partial fill and
\* another order is COMPLETED.
C11_Witness ==
    \E i, j \in Known :
        /\ orders[i].kind = "Stop" /\ orders[i].state = "CANCELED"
        /\ orders[i].amount_filled > 0
        /\ orders[j].state = "COMPLETED"

\* C12 (create-then-cancel round trip): in every reachable state, an accepted
\* request cancelled at once leaves every available balance as it was before
\* create_order, the order's hold 0 and the order CANCELED; an open order that
\* has had no fill keeps its hold in every step; and cancelling it returns
\* exactly that hold to available, so the balances are those of before its
\* create_order whatever happened to the order in between.
C12_CreateCancelRoundTrip ==
    /\ [](\A request \in Requests :
            LET created == create_order(Cur, request, 0)
                canceled == cancel_order(created.st, created.id)
            IN  (Len(orders) < MaxOrders /\ created.result = "created") =>
                    /\ canceled.result = "canceled"
                    /\ canceled.st.available = available
                    /\ canceled.st.holds[created.id] = NoAmounts
                    /\ canceled.st.orders[created.id].state = "CANCELED")
    /\ [](\A id \in Known :
            (is_open(orders[id]) /\ orders[id].amount_filled = 0) =>
                LET canceled == cancel_order(Cur, id)
                IN  /\ canceled.result = "canceled"
                    /\ \A s \in Symbols :
                          /\ canceled.st.available[s] = available[s] + holds[id][s]
                          /\ canceled.st.holds[id][s] = 0
                    /\ canceled.st.orders[id].state = "CANCELED")
    /\ [][\A id \in Known :
            (/\ is_open(orders[id]) /\ orders[id].amount_filled = 0
             /\ is_open(orders'[id]) /\ orders'[id].amount_filled = 0)
                => holds'[id] = holds[id]]_vars

\* The only order, a Stop SELL that holds its base amount, was triggered by a
\* bar that could not fill it and then cancelled: nothing is on hold and the
\* balances are the initial ones.
C12_Witness ==
    /\ Len(orders) = 1
    /\ orders[1].kind = "Stop" /\ orders[1].triggered
    /\ orders[1].state = "CANCELED" /\ orders[1].amount_filled = 0
    /\ holds[1] = NoAmounts
    /\ available = initial_balances
    /\ bar_seq > 0

\* The ids (creation order) of the first n orders that are open and of pair.
RECURSIVE open_ids_of(_, _)
open_ids_of(pair, n) ==
    IF n = 0 THEN <<>>
    ELSE IF is_open(orders[n]) /\ orders[n].pair = pair
         THEN Append(open_ids_of(pair, n - 1), n)
         ELSE open_ids_of(pair, n - 1)

\* C13 (insertion-order matching): the list of open orders is always in
\* creation order and holds every open order, whatever iterations, closures
\* and compactions came before; and the orders a bar hands to _process_order
\* are exactly the orders of its pair that were open when it arrived, in the
\* order in which they were created.
C13_InsertionOrder ==
    /\ [](/\ \A i, j \in 1..Len(open_orders) :
               i < j => open_orders[i] < open_orders[j]
          /\ \A id \in Known :
               is_open(orders[id]) => \E i \in 1..Len(open_orders) : open_orders[i] = id)
    /\ [][bar_seq' # bar_seq =>
             match'.processed = open_ids_of(match'.pair, Len(orders))]_vars

\* On the bar that rebuilds the list, after an earlier bar, two orders of the
\* pair were processed: the first one created took liquidity and left the
\* second, whose limit price the bar reached, less than it could fill.
C13_Witness ==
    /\ match.processed = <<1, 2>>
    /\ bar_seq > 1 /\ match.seq = bar_seq
    /\ reindex_counter = reindex_every
    /\ match.seq \in orders[1].fill_seqs
    /\ match.taken > 0 /\ match.taken < match.offered
    /\ orders[2].kind = "Limit" /\ is_open(orders[2])
    /\ orders[2].amount_filled = 0
    /\ last_bars[match.pair].low <= orders[2].limit_price

\* What a bar added to the amount filled of an order.
filled_by_step(id) == orders'[id].amount_filled - orders[id].amount_filled

\* A Market order that is the only open order of the pair of the bar being
\* delivered, which offers some liquidity but less than the order's amount,
\* and fills part of the order.
partial_market_fill(id) ==
    /\ bar_seq' # bar_seq
    /\ orders[id].kind = "Market" /\ is_open(orders[id])
    /\ open_ids_of(match'.pair, Len(orders)) = <<id>>
    /\ match'.offered > 0 /\ match'.offered < orders[id].amount
    /\ filled_by_step(id) > 0

\* C14 as stated (partial fills across bars): on each such bar the order is
\* filled min(remaining, L).
C14_FillsMinRemainingLiquidity ==
    [][\A id \in Known :
          partial_market_fill(id) =>
              filled_by_step(id)
                  = Min(orders[id].amount - orders[id].amount_filled, match'.offered)]_vars

\* C14 as amended: on each such bar the order is filled min(remaining, L)
\* truncated to the base precision, it stays OPEN while that leaves
\* amount_filled < A, and it is COMPLETED by the bar that makes amount_filled
\* reach A.
C14_FillsTruncatedMinRemainingLiquidity ==
    [][\A id \in Known :
          partial_market_fill(id) =>
              /\ filled_by_step(id)
                    = truncate_decimal(
                          Min(orders[id].amount - orders[id].amount_filled,
                              match'.offered))
              /\ orders'[id].state =
                    IF orders'[id].amount_filled = orders[id].amount
                    THEN "COMPLETED" ELSE "OPEN"]_vars

\* A Market order of amount 2 was filled by two bars, the second of which
\* offered 1.5, and is COMPLETED.
C14_Witness ==
    \E id \in Known :
        /\ orders[id].kind = "Market" /\ orders[id].amount = U(2)
        /\ orders[id].fill_seqs = {1, 2}
        /\ orders[id].state = "COMPLETED"
        /\ match.processed = <<id>> /\ match.seq = 2
        /\ match.offered = U(1) + (Den \div 2)

\* A valid Market request of the given operation for which no price can be
\* estimated: no bar of its pair has been seen.
unpriced_market(request, operation) ==
    /\ request.kind = "Market" /\ request.operation = operation
    /\ validate(request)
    /\ last_bars[request.pair] = NoBar
    /\ Len(orders) < MaxOrders

\* The SELL half of C15: an unpriced SELL Market request that the base balance
\* covers is accepted, with a hold on the base symbol only.
unpriced_sell_holds_base ==
    \A request \in Requests :
        (/\ unpriced_market(request, "SELL")
         /\ available[request.pair.base_symbol] >= request.amount) =>
            LET call == create_order(Cur, request, 0)
            IN  /\ call.result = "created"
                /\ \A s \in Symbols :
                      call.st.holds[call.id][s] =
                          IF s = request.pair.base_symbol THEN request.amount ELSE 0

\* C15 as stated: an unpriced BUY Market request fails the balance pre-check
\* of create_order and no order is created; an unpriced SELL Market request is
\* accepted with a hold on the base symbol only.
C15_UnpricedBuyFails ==
    /\ \A request \in Requests :
          unpriced_market(request, "BUY") =>
              LET call == create_order(Cur, request, 0)
              IN  /\ call.result = "insufficient_balance"
                  /\ call.st.orders = orders
    /\ unpriced_sell_holds_base

\* C15 as amended: an unpriced BUY Market request requires nothing, passes the
\* pre-check and is accepted: the order is OPEN, it holds nothing and no
\* available balance changes; the SELL half is as stated.
C15_UnpricedBuyAcceptedWithoutHold ==
    /\ [](\A request \in Requests :
            unpriced_market(request, "BUY") =>
                LET call == create_order(Cur, request, 0)
                IN  /\ estimate_required_balances(Cur, request) = NoAmounts
                    /\ call.result = "created"
                    /\ Len(call.st.orders) = Len(orders) + 1
                    /\ is_open(call.st.orders[call.id])
                    /\ call.st.holds[call.id] = NoAmounts
                    /\ call.st.available = available)
    /\ []unpriced_sell_holds_base

\* Before any bar of their pair a BUY Market order was accepted and holds
\* nothing, and a SELL Market order was accepted and holds its base amount.
C15_Witness ==
    \E i, j \in Known :
        /\ orders[i].kind = "Market" /\ orders[i].operation = "BUY"
        /\ orders[j].kind = "Market" /\ orders[j].operation = "SELL"
        /\ last_bars[orders[i].pair] = NoBar /\ last_bars[orders[j].pair] = NoBar
        /\ is_open(orders[i]) /\ holds[i] = NoAmounts
        /\ is_open(orders[j])
        /\ holds[j][orders[j].pair.base_symbol] = orders[j].amount
        /\ holds[j][orders[j].pair.quote_symbol] = 0

\* C16 (one liquidity strategy per pair): the factory is invoked at most once
\* for each pair, on its first bar: a bar of a pair that has had a bar before is
\* matched with the strategy kept for the pair, without a call of the factory.
C16_OneStrategyPerPair ==
    [][(bar_seq' # bar_seq /\ last_bars[match'.pair] # NoBar)
          => ~match'.factory_called]_vars

\* The exchange about to match the open order id against the next bar of the
\* given shape, of whose liquidity used has been taken by earlier orders.
matching(shape, used) ==
    [Cur EXCEPT !.liq = [on_bar(shape) EXCEPT !.used = used]]

\* The final update (rounded flows plus rounded fees) of that fill.
final_update_of(id, shape, used) ==
    LET st == matching(shape, used)
        balance_updates == round_balance_updates(orders[id].pair,
                               get_balance_updates(orders[id], shape, st.liq).updates)
    IN  [flows |-> balance_updates,
         final |-> add_amounts(balance_updates,
                       round_fees(orders[id].pair,
                           calculate_fees(fee_strategy, orders[id], balance_updates)))]

\* The fills the next bar may attempt: an open order of the bar's pair whose
\* rounded update has a base and a quote amount.
attempts ==
    { a \in [id : Known, shape : Bars, used : {0, Den}] :
        /\ is_open(orders[a.id]) /\ orders[a.id].pair = a.shape.pair
        /\ a.used <= on_bar(a.shape).total
        /\ LET flows == final_update_of(a.id, a.shape, a.used).flows
           IN  /\ flows[a.shape.pair.base_symbol] # 0
               /\ flows[a.shape.pair.quote_symbol] # 0 }

\* Whether the balances cover the final update of an attempt.
affordable(a) ==
    \A s \in Symbols :
        available[s] + holds[a.id][s]
            + final_update_of(a.id, a.shape, a.used).final[s] >= 0

\* C17 (affordability gate): in every reachable state and for every fill the
\* next bar may attempt, _process_order commits the fill iff available + the
\* order's hold + the final update is >= 0 for every symbol; when it is not,
\* no liquidity is taken, the order's amount_filled and fees stay, the total
\* of every symbol stays, and the order takes the not-filled path (a Market
\* order is CANCELED and its hold released, another order stays OPEN).
C17_AffordabilityGate ==
    [](\A a \in attempts :
        LET st == matching(a.shape, a.used)
            after == process_order(st, a.id, a.shape)
        IN  /\ (after.orders[a.id].amount_filled > orders[a.id].amount_filled)
                  <=> affordable(a)
            /\ ~affordable(a) =>
                  /\ after.liq = st.liq
                  /\ after.match.taken = match.taken
                  /\ after.orders[a.id].amount_filled = orders[a.id].amount_filled
                  /\ after.orders[a.id].fees = orders[a.id].fees
                  /\ after.orders[a.id].fill_seqs = orders[a.id].fill_seqs
                  /\ after.realized = realized
                  /\ \A s \in Symbols :
                        get_balance(after, s).total = get_balance(Cur, s).total
                  /\ after.orders[a.id].state =
                        IF orders[a.id].kind = "Market" THEN "CANCELED" ELSE "OPEN"
                  /\ after.orders[a.id].state = "CANCELED" =>
                        after.holds[a.id] = NoAmounts)

\* The last bar offered at least a unit of liquidity to a BUY Market order it
\* processed, nobody took any, and the order was cancelled unfilled: its fill
\* was not affordable.  A fill that the balances do not cover and one that
\* they cover only with the order's hold can be attempted next.
C17_Witness ==
    /\ \E id \in Known :
          /\ orders[id].kind = "Market" /\ orders[id].operation = "BUY"
          /\ orders[id].state = "CANCELED" /\ orders[id].fill_seqs = {}
          /\ \E i \in 1..Len(match.processed) : match.processed[i] = id
          /\ match.offered >= Den /\ match.taken = 0
    /\ \E a \in attempts : ~affordable(a)
    /\ \E a \in attempts :
          /\ affordable(a)
          /\ \E s \in Symbols :
                available[s] + final_update_of(a.id, a.shape, a.used).final[s] < 0

\* C18 (not-filled path by variant): when a bar of a pair is matched, every
\* order of the pair that was open when the bar arrived and gets no fill from
\* it is CANCELED afterwards if it is a Market order, with or without earlier
\* fills, and still OPEN if it is a Limit, Stop or StopLimit order.
C18_NotFilledByVariant ==
    [][\A id \in Known :
          (/\ bar_seq' # bar_seq
           /\ is_open(orders[id]) /\ orders[id].pair = match'.pair
           /\ filled_by_step(id) = 0) =>
              orders'[id].state =
                  IF orders[id].kind = "Market" THEN "CANCELED" ELSE "OPEN"]_vars

\* The second bar filled neither of the two orders it processed: the Market
\* order, filled in part by the first bar, is CANCELED and the other order,
\* not a Market order, is OPEN.
C18_Witness ==
    \E i, j \in Known :
        /\ match.seq = 2 /\ match.taken = 0
        /\ match.processed \in {<<i, j>>, <<j, i>>}
        /\ orders[i].kind = "Market" /\ orders[i].state = "CANCELED"
        /\ orders[i].fill_seqs = {1}
        /\ orders[j].kind # "Market" /\ orders[j].state = "OPEN"
        /\ orders[j].fill_seqs = {}

\* C19 (holds kept on the not-filled path): in every reachable state,
\* matching an open order against the next bar, whatever liquidity is left of
\* it, either fills the order, or closes it, or leaves every hold and every
\* available balance as it is; and no bar changes the hold of an order that it
\* leaves OPEN without a fill.
C19_HoldKeptWhenNotFilled ==
    /\ [](\A id \in Known : \A shape \in Bars : \A used \in {0, Den} :
            (/\ is_open(orders[id]) /\ orders[id].pair = shape.pair
             /\ used <= on_bar(shape).total) =>
                LET after == process_order(matching(shape, used), id, shape)
                IN  (/\ is_open(after.orders[id])
                     /\ after.orders[id].amount_filled = orders[id].amount_filled) =>
                        /\ after.holds = holds
                        /\ after.available = available)
    /\ [][\A id \in Known :
            (/\ bar_seq' # bar_seq
             /\ is_open(orders[id]) /\ is_open(orders'[id])
             /\ filled_by_step(id) = 0) => holds'[id] = holds[id]]_vars

\* The only order, a StopLimit BUY, was processed by a bar that did not reach
\* its stop price: it is OPEN, holds what it held at acceptance, and the rest
\* of the initial balance is available.
C19_Witness ==
    /\ Len(orders) = 1 /\ match.processed = <<1>>
    /\ orders[1].kind = "StopLimit" /\ orders[1].operation = "BUY"
    /\ ~orders[1].triggered /\ is_open(orders[1]) /\ orders[1].fill_seqs = {}
    /\ holds[1] = estimate_required_balances(Cur,
                      Req("StopLimit", "BUY", orders[1].pair, orders[1].amount,
                          orders[1].limit_price, orders[1].stop_price))
    /\ holds[1]["USDT"] > 0
    /\ available["USDT"] = initial_balances["USDT"] - holds[1]["USDT"]

\* C20 (completion exactly at full fill): in every reachable state an order
\* is COMPLETED iff its amount_filled equals its amount, so an order with less
\* filled is OPEN or CANCELED; and the step whose fill makes amount_filled
\* equal to amount leaves the order COMPLETED.
C20_CompletedIffFilled ==
    /\ [](\A id \in Known :
            /\ (orders[id].state = "COMPLETED")
                  <=> (orders[id].amount_filled = orders[id].amount)
            /\ orders[id].amount_filled < orders[id].amount
                  => orders[id].state \in {"OPEN", "CANCELED"})
    /\ [][\A id \in Known :
            (/\ orders[id].amount_filled < orders[id].amount
             /\ orders'[id].amount_filled = orders[id].amount)
                => /\ orders[id].state = "OPEN"
                   /\ orders'[id].state = "COMPLETED"
                   /\ bar_seq' # bar_seq]_vars

\* One order was COMPLETED by the last bar and another, filled in part, is
\* OPEN.
C20_Witness ==
    \E i, j \in Known :
        /\ orders[i].state = "COMPLETED" /\ match.seq \in orders[i].fill_seqs
        /\ orders[i].amount_filled = orders[i].amount
        /\ orders[j].state = "OPEN"
        /\ orders[j].amount_filled > 0
        /\ orders[j].amount_filled < orders[j].amount

\* The number of times x occurs in seq.
occurrences(seq, x) == Cardinality({i \in 1..Len(seq) : seq[i] = x})

\* The entries of the list whose orders are open after the step.
still_open(list, after) ==
    SelectSeq(list, LAMBDA id : is_open(after[id]))

\* C21 (open-order iteration is exact under compaction): in every reachable
\* state the list of the index holds no order twice and holds every open
\* order, and one Exchange.get_open_orders iteration returns each order that
\* is open (and passes its pair filter) exactly once and no closed order; a
\* bar hands to _process_order each order of its pair that was open exactly
\* once and no other order; an iteration that is a reindex_every-th one leaves
\* the list with exactly its entries that are still open, in their order, and
\* any other iteration leaves the list as it was.
C21_ExactIteration ==
    /\ [](/\ \A id \in Known :
                occurrences(open_orders, id) <= 1
                /\ (is_open(orders[id]) => occurrences(open_orders, id) = 1)
          /\ \A pair \in Pairs \cup {NoPair} :
                LET result == exchange_get_open_orders(Cur, pair).result
                IN  \A id \in Known :
                        occurrences(result, id) =
                            IF /\ is_open(orders[id])
                               /\ (pair = NoPair \/ orders[id].pair = pair)
                            THEN 1 ELSE 0)
    /\ [][/\ bar_seq' # bar_seq =>
                \A id \in Known :
                    occurrences(match'.processed, id) =
                        IF is_open(orders[id]) /\ orders[id].pair = match'.pair
                        THEN 1 ELSE 0
          /\ reindex_counter' # reindex_counter =>
                open_orders' = IF reindex_counter' % reindex_every = 0
                               THEN still_open(open_orders, orders')
                               ELSE open_orders]_vars

\* The reindex_every-th iteration dropped a closed order from the list and
\* kept an open one, which the bar after it handed to _process_order once.
C21_Witness ==
    \E id, gone \in Known :
        /\ closed(orders[gone])
        /\ open_orders = <<id>>
        /\ reindex_counter = reindex_every + 1
        /\ bar_seq > 0 /\ match.seq = bar_seq
        /\ match.processed = <<id>>

\* C22 (pair isolation of matching): the step that processes a bar of pair p
\* leaves the state, amount_filled, fees and hold of every order whose pair
\* is not p as they were, and leaves the last-bar cache entry of every other
\* pair as it was.
C22_PairIsolation ==
    [][bar_seq' # bar_seq =>
          /\ \A id \in Known :
                orders[id].pair # match'.pair =>
                    /\ orders'[id].state = orders[id].state
                    /\ orders'[id].amount_filled = orders[id].amount_filled
                    /\ orders'[id].fees = orders[id].fees
                    /\ holds'[id] = holds[id]
          /\ \A q \in Pairs \ {match'.pair} :
                last_bars'[q] = last_bars[q]]_vars

\* The last bar, of ETH/USDT, filled an order of its pair while an open
\* BTC/USDT order with a hold and the cached BTC/USDT bar stayed as they were.
C22_Witness ==
    \E i, j \in Known :
        /\ bar_seq > 0 /\ match.seq = bar_seq /\ match.pair = P2
        /\ last_bars[P2].seq = bar_seq
        /\ last_bars[P1] # NoBar /\ last_bars[P1].seq < bar_seq
        /\ orders[i].pair = P1 /\ is_open(orders[i])
        /\ holds[i] # NoAmounts /\ orders[i].fill_seqs = {}
        /\ orders[j].pair = P2 /\ match.seq \in orders[j].fill_seqs

=============================================================================
